---- MODULE Spec2Model ----
(***************************************************************************)
(* A model of nana (index.ts): the context model (makeCtx), the validator  *)
(* core (createValidator), pipe / transform / check, required / optional,  *)
(* the leaf type guards, object / array and the entry point validate.      *)
(*                                                                         *)
(* A behaviour is a call validate(schema, input, rootPath), followed, if    *)
(* it succeeds, by a call of validate on the result it returned; or it is  *)
(* a caller invoking the validator itself, schema(input, ctx), on a        *)
(* context of its own making.  The                                         *)
(* JavaScript call stack is explicit (stack), a frame per running          *)
(* validatorFn; ret is what the last finished call handed to its caller    *)
(* (a return value or a thrown exception).  Context objects live in ctxs   *)
(* and are referred to by index, because pipe and optional mutate them.    *)
(***************************************************************************)
EXTENDS Integers, Sequences, FiniteSets, TLC

\* Longest array among the input values.
MaxLen == 2
\* Longest pipe among the generated pipelines.
MaxPipe == 2

VARIABLES
    schema,     \* validate's first argument: the validator (as a term)
    input,      \* validate's second argument
    rootPath,   \* validate's third argument
    pc,         \* "start" before the call, "run" while the schema runs, "done" once
                \* validate has returned, "returned" once a direct call has ended
    ctxs,       \* the context objects created so far, ctxs[1] the root context
    stack,      \* the running validatorFn activations, innermost last
    ret,        \* the outcome of the call that just finished
    nextId,     \* the identity the next created object, array or Error gets
    log,        \* every validatorFn entry and exit, in order
    out,        \* validate's return value
    before,     \* what validate returned before, when its result is validated again
    entry       \* how the schema was invoked: "validate", or "direct" by the caller

vars == <<schema, input, rootPath, pc, ctxs, stack, ret, nextId, log, out, before,
          entry>>

-----------------------------------------------------------------------------
(* JavaScript values.  Objects and arrays carry an identity: 0 for a       *)
(* structure that is part of validate's input, the allocation number for   *)
(* one created during the run.  An object's members are kept in its own    *)
(* property order.                                                         *)

Null == [t |-> "null"]
Undef == [t |-> "undefined"]
Num(n) == [t |-> "number", v |-> n]
Str(s) == [t |-> "string", v |-> s]
Bool(b) == [t |-> "boolean", v |-> b]
Obj(id, members) == [t |-> "object", id |-> id, v |-> members]
Arr(id, items) == [t |-> "array", id |-> id, v |-> items]

\* typeof value
TypeOf(value) ==
    IF value.t \in {"null", "object", "array", "error"} THEN "object" ELSE value.t

\* Array.isArray(value)
IsArray(value) == value.t = "array"

\* !value
Falsy(value) ==
    \/ value.t \in {"null", "undefined"}
    \/ value.t = "number" /\ value.v = 0
    \/ value.t = "string" /\ value.v = ""
    \/ value.t = "boolean" /\ value.v = FALSE

\* A null test written as !value.
IsMissing(value) == Falsy(value)

\* value == null
IsNullish(value) == value.t \in {"null", "undefined"}

\* value[key] for a string key of an object
RECURSIVE Lookup(_, _)
Lookup(members, key) ==
    IF members = <<>> THEN Undef
    ELSE IF Head(members)[1] = key THEN Head(members)[2]
    ELSE Lookup(Tail(members), key)

\* value[key] as object() reads it: the value has passed the guard, so it is
\* an object that is no array (an Error among them, which has no such member)
GetMember(value, key) ==
    IF value.t = "object" THEN Lookup(value.v, key) ELSE Undef

\* The keys that JavaScript orders as array indices.
IndexKeys == {"0", "1", "2", "3"}

\* String(n) for the small numbers of the model
NumText(n) == ToString(n)

\* String(value) for a primitive
PrimText(value) ==
    CASE value.t = "null" -> "null"
      [] value.t = "undefined" -> "undefined"
      [] value.t = "string" -> value.v
      [] value.t = "number" -> NumText(value.v)
      [] value.t = "boolean" -> (IF value.v THEN "true" ELSE "false")

\* JSON.stringify(value), for the values of the model
RECURSIVE Json(_)
RECURSIVE JsonMembers(_, _)
RECURSIVE JsonItems(_, _)
JsonMembers(members, first) ==
    IF members = <<>> THEN ""
    ELSE IF Head(members)[2].t = "undefined" THEN JsonMembers(Tail(members), first)
    ELSE (IF first THEN "" ELSE ",") \o "\"" \o Head(members)[1] \o "\":"
         \o Json(Head(members)[2]) \o JsonMembers(Tail(members), FALSE)
JsonItems(items, first) ==
    IF items = <<>> THEN ""
    ELSE (IF first THEN "" ELSE ",")
         \o (IF Head(items).t = "undefined" THEN "null" ELSE Json(Head(items)))
         \o JsonItems(Tail(items), FALSE)
Json(value) ==
    CASE value.t = "string" -> "\"" \o value.v \o "\""
      [] value.t = "array" -> "[" \o JsonItems(value.v, TRUE) \o "]"
      [] value.t = "object" -> "{" \o JsonMembers(value.v, TRUE) \o "}"
      [] OTHER -> PrimText(value)

formatValue(value) ==
    IF value.t \in {"array", "object"} THEN Json(value) ELSE PrimText(value)

-----------------------------------------------------------------------------
(* Errors.  A field that was never assigned reads as undefined.            *)

\* new Error(message)
NewError(id, message) ==
    [t |-> "error", id |-> id, message |-> message, expected |-> Undef,
     actual |-> Undef, path |-> Undef, key |-> Undef, parent |-> Undef,
     root |-> Undef]

\* A catch clause that wraps whatever it caught in a new Error.
NormalizeWrap(err, id) ==
    NewError(id, IF err.t = "error" THEN err.message ELSE PrimText(err))

\* err instanceof Error ? err : new Error(String(err))
Normalize(err, id) ==
    IF err.t = "error" THEN err ELSE NewError(id, PrimText(err))

\* The number of identities Normalize takes.
NormalizeAllocs(err) == IF err.t = "error" THEN 0 ELSE 1

\* A validator that reports its context's value in place of its argument.
StampActualFromCtx(error, name, value, ctx) ==
    IF Falsy(error.expected)
    THEN [error EXCEPT !.expected = Str(name), !.actual = ctx.value,
                       !.path = Str(ctx.path), !.key = ctx.key,
                       !.parent = ctx.parent, !.root = ctx.root]
    ELSE error

\* A validator that overwrites the fields of an error it re-throws.
StampAlways(error, name, value, ctx) ==
    [error EXCEPT !.expected = Str(name), !.actual = value,
                  !.path = Str(ctx.path), !.key = ctx.key,
                  !.parent = ctx.parent, !.root = ctx.root]

\* if (!error.expected) { error.expected = name; ... error.root = ctx.root }
Stamp(error, name, value, ctx) ==
    IF Falsy(error.expected)
    THEN [error EXCEPT !.expected = Str(name), !.actual = value,
                       !.path = Str(ctx.path), !.key = ctx.key,
                       !.parent = ctx.parent, !.root = ctx.root]
    ELSE error

\* The catch clause of validatorFn: what it re-throws for a caught err.
Caught(err, id, name, value, ctx) == Stamp(Normalize(err, id), name, value, ctx)

-----------------------------------------------------------------------------
(* Contexts.                                                               *)

\* A child context whose path forgets the parent's path.
makeCtxFlat(parentCtx, key, value) ==
    [path |-> IF parentCtx = Null THEN "$"
              ELSE IF key.t = "number" THEN "$[" \o NumText(key.v) \o "]"
              ELSE "$." \o key.v,
     key |-> key,
     parent |-> IF parentCtx = Null THEN Null ELSE parentCtx.value,
     root |-> IF parentCtx = Null THEN value ELSE parentCtx.root,
     value |-> value, abortPipe |-> FALSE]

\* A child context that takes over its parent context's parent.
makeCtxParentRef(parentCtx, key, value) ==
    [path |-> IF parentCtx = Null THEN "$"
              ELSE IF key.t = "number"
              THEN parentCtx.path \o "[" \o NumText(key.v) \o "]"
              ELSE parentCtx.path \o "." \o key.v,
     key |-> key,
     parent |-> IF parentCtx = Null THEN Null ELSE parentCtx.parent,
     root |-> IF parentCtx = Null THEN value ELSE parentCtx.root,
     value |-> value, abortPipe |-> FALSE]

\* makeCtx(parentCtx, key, value); parentCtx is a context, or Null for none.
makeCtx(parentCtx, key, value) ==
    [path |-> IF parentCtx = Null THEN "$"
              ELSE IF key.t = "number"
              THEN parentCtx.path \o "[" \o NumText(key.v) \o "]"
              ELSE parentCtx.path \o "." \o key.v,
     key |-> key,
     parent |-> IF parentCtx = Null THEN Null ELSE parentCtx.value,
     root |-> IF parentCtx = Null THEN value ELSE parentCtx.root,
     value |-> value, abortPipe |-> FALSE]

\* The context validate builds itself.
RootCtx(value, path) ==
    [path |-> path, key |-> Null, parent |-> Null, root |-> value,
     value |-> value, abortPipe |-> FALSE]

-----------------------------------------------------------------------------
(* Validators, as terms.  A term is what a factory call returns: the      *)
(* closure's name and captured arguments.  msg = "" is an omitted message  *)
(* (the code tests msg || default, so an empty one counts as omitted).     *)

string(msg) == [k |-> "string", msg |-> msg]
number(msg) == [k |-> "number", msg |-> msg]
boolean(msg) == [k |-> "boolean", msg |-> msg]
required(msg) == [k |-> "required", msg |-> msg]
optional == [k |-> "optional"]
transform(fn) == [k |-> "transform", fn |-> fn]
check(fn, msg) == [k |-> "check", fn |-> fn, msg |-> msg]
pipe(validators) == [k |-> "pipe", vs |-> validators]
\* shape: the members as written in the object literal, <<key, validator>>
object(shape, msg) == [k |-> "object", shape |-> shape, msg |-> msg]
array(validator, msg) == [k |-> "array", item |-> validator, msg |-> msg]
\* createValidator(name, handler)(), for a handler of the caller's
custom(name, handler) == [k |-> "custom", name |-> name, handler |-> handler]

LeafKinds == {"string", "number", "boolean"}

\* A check that goes by the factory's name whatever its predicate is called.
NameOfFactory(v) == v.k

\* The name a validator was created with: createValidator's first argument.
NameOf(v) == IF v.k = "check" THEN (IF v.fn.name = "" THEN "check" ELSE v.fn.name)
             ELSE IF v.k = "custom" THEN v.name
             ELSE v.k

-----------------------------------------------------------------------------
(* The caller's functions: transform's fn and check's predicate.           *)

\* v.toUpperCase() on the strings of the model
UpperCase(s) == IF s = "a" THEN "A" ELSE s

\* fn(value, ctx) for transform's fn.  upper: v => v.toUpperCase();
\* toNull: () => null; wrap: v => ({ a: v }); throwStr: () => { throw 'boom' };
\* throwErr: () => { throw new Error('bad') }.
CallTransform(fn, value, id) ==
    CASE fn = "upper" ->
           IF value.t = "string"
           THEN [threw |-> FALSE, v |-> Str(UpperCase(value.v)), allocs |-> 0]
           ELSE [threw |-> TRUE, v |-> NewError(id, "v.toUpperCase is not a function"),
                 allocs |-> 1]
      [] fn = "toNull" -> [threw |-> FALSE, v |-> Null, allocs |-> 0]
      [] fn = "wrap" -> [threw |-> FALSE, v |-> Obj(id, <<<<"a", value>>>>), allocs |-> 1]
      [] fn = "throwStr" -> [threw |-> TRUE, v |-> Str("boom"), allocs |-> 0]
      [] fn = "throwErr" -> [threw |-> TRUE, v |-> NewError(id, "bad"), allocs |-> 1]

\* value > 0
RECURSIVE GreaterThanZero(_)
GreaterThanZero(value) ==
    CASE value.t = "number" -> value.v > 0
      [] value.t = "boolean" -> value.v
      [] value.t = "array" ->
           /\ Len(value.v) = 1
           /\ value.v[1].t \in {"number", "array"}
           /\ GreaterThanZero(value.v[1])
      [] OTHER -> FALSE

\* A predicate: its declared name ("" for an arrow function passed inline)
\* and its body.
Predicate(name, body) == [name |-> name, body |-> body]

\* fn(value, ctx) for check's predicate.  gt0: v => v > 0; the others return
\* one value whatever they are given, or throw new Error('boom').
CallCheck(fn, value, id) ==
    CASE fn.body = "gt0" -> [threw |-> FALSE, v |-> Bool(GreaterThanZero(value)), allocs |-> 0]
      [] fn.body = "true" -> [threw |-> FALSE, v |-> Bool(TRUE), allocs |-> 0]
      [] fn.body = "false" -> [threw |-> FALSE, v |-> Bool(FALSE), allocs |-> 0]
      [] fn.body = "null" -> [threw |-> FALSE, v |-> Null, allocs |-> 0]
      [] fn.body = "undefined" -> [threw |-> FALSE, v |-> Undef, allocs |-> 0]
      [] fn.body = "zero" -> [threw |-> FALSE, v |-> Num(0), allocs |-> 0]
      [] fn.body = "one" -> [threw |-> FALSE, v |-> Num(1), allocs |-> 0]
      [] fn.body = "yes" -> [threw |-> FALSE, v |-> Str("yes"), allocs |-> 0]
      [] fn.body = "throw" -> [threw |-> TRUE, v |-> NewError(id, "boom"), allocs |-> 1]

\* handler(value, ctx, args) for a validator of the caller's.  double:
\* (value) => value * 2, given numbers; throwStr: () => { throw 'boom' }.
CallHandler(handler, value, id) ==
    CASE handler = "double" -> [threw |-> FALSE, v |-> Num(value.v * 2), allocs |-> 0]
      [] handler = "throwStr" -> [threw |-> TRUE, v |-> Str("boom"), allocs |-> 0]

CheckBodies == {"gt0", "true", "false", "null", "undefined", "zero", "one", "yes", "throw"}

-----------------------------------------------------------------------------
(* The default message of a failing guard.  Cross stands for the mark      *)
(* U+2716 of the source's template.                                        *)

Cross == "x"

\* msg || `(${ctx.path}: ${formatValue(value)}) <mark> ${name}`
Message(msg, ctx, value, name) ==
    IF msg # "" THEN msg
    ELSE "(" \o ctx.path \o ": " \o formatValue(value) \o ") " \o Cross \o " " \o name

-----------------------------------------------------------------------------
(* The order in which for (const key in shape) visits the keys of a shape: *)
(* the keys that are array indices first, in ascending numeric order, then *)
(* the other keys in the order they were written.                          *)

IndexKeySeq == <<"0", "1", "2", "3">>

ShapeKeys(shape) == [i \in 1..Len(shape) |-> shape[i][1]]

ForIn(shape) ==
    LET Declared(key) == \E i \in 1..Len(shape) : shape[i][1] = key
        Named(key) == key \notin IndexKeys
    IN SelectSeq(IndexKeySeq, Declared) \o SelectSeq(ShapeKeys(shape), Named)

\* The position of key in the shape as written.
Position(shape, key) == CHOOSE i \in 1..Len(shape) : shape[i][1] = key

-----------------------------------------------------------------------------
(* The call stack.                                                         *)

\* The activation of validatorFn(value, ctx) for validator v.  node is the
\* place of v in the schema: the steps, members and items taken from the top.
\* cur, i, acc and keys are the handler's locals: pipe's value and loop
\* position, object's result and key list, array's mapped items.
Frame(node, v, ctx, value) ==
    [node |-> node, v |-> v, ctx |-> ctx, value |-> value, cur |-> value,
     i |-> 0, acc |-> <<>>, keys |-> <<>>, entered |-> FALSE]

Top == stack[Len(stack)]
Pop == SubSeq(stack, 1, Len(stack) - 1)
NoRet == [kind |-> "none"]
NoResult == [pending |-> TRUE]

\* An entry of the log: v is the argument of a call, the value of a return,
\* the error of a throw; raw is v, or for a throw what validatorFn caught.
Event(ev, f, x) ==
    [ev |-> ev, node |-> f.node, name |-> NameOf(f.v), ctx |-> f.ctx, v |-> x,
     raw |-> x]

Running(kinds) ==
    /\ pc = "run"
    /\ stack # <<>>
    /\ Top.v.k \in kinds

\* validatorFn returns what its handler returned.
Return(f, value) ==
    /\ stack' = Pop
    /\ ret' = [kind |-> "value", v |-> value]
    /\ log' = Append(log, Event("return", f, value))

\* validatorFn catches err, thrown by its handler or by a validator the
\* handler called, and re-throws it; id is the next free identity.
Rethrow(f, err, id) ==
    LET error == Caught(err, id, NameOf(f.v), f.value, ctxs[f.ctx])
    IN /\ stack' = Pop
       /\ ret' = [kind |-> "throw", v |-> error]
       /\ log' = Append(log, [Event("throw", f, error) EXCEPT !.raw = err])
       /\ nextId' = id + NormalizeAllocs(err)

\* The handler calls validator v with (value, ctx); f is the caller's frame
\* as it is left while the call runs.
Call(f, node, v, ctx, value) ==
    LET callee == Frame(node, v, ctx, value)
    IN /\ stack' = Append([stack EXCEPT ![Len(stack)] = f], callee)
       /\ log' = Append(log, Event("call", callee, value))

-----------------------------------------------------------------------------
(* validate.                                                               *)

ValidateCall ==
    /\ pc = "start"
    /\ pc' = "run"
    /\ entry' = "validate"
    /\ ctxs' = <<RootCtx(input, rootPath)>>
    /\ stack' = <<Frame(<<>>, schema, 1, input)>>
    /\ log' = <<Event("call", Frame(<<>>, schema, 1, input), input)>>
    /\ UNCHANGED <<before, schema, input, rootPath, ret, nextId, out>>

\* What validate returns when the schema returned.
ValidResult(result) == [valid |-> TRUE, result |-> result]

\* A validate that hands back the offending value in place of its input.
InvalidResultActual(error, value) ==
    [valid |-> FALSE, error |-> error, result |-> error.actual]

\* What validate returns when the schema threw.
InvalidResult(error, value) == [valid |-> FALSE, error |-> error, result |-> value]

ValidateReturn ==
    /\ pc = "run"
    /\ entry = "validate"
    /\ stack = <<>>
    /\ ret.kind = "value"
    /\ out' = ValidResult(ret.v)
    /\ pc' = "done"
    /\ UNCHANGED <<entry, before, schema, input, rootPath, ctxs, stack, ret, nextId, log>>

ValidateCatch ==
    /\ pc = "run"
    /\ entry = "validate"
    /\ stack = <<>>
    /\ ret.kind = "throw"
    /\ out' = InvalidResult(ret.v, input)
    /\ pc' = "done"
    /\ UNCHANGED <<entry, before, schema, input, rootPath, ctxs, stack, ret, nextId, log>>

\* The caller hands the result of a successful validate to validate again:
\* const again = validate(schema, res.result, rootPath)
ValidateAgain ==
    /\ pc = "done"
    /\ before = NoResult
    /\ out.valid
    /\ before' = out
    /\ input' = out.result
    /\ pc' = "start"
    /\ ctxs' = <<>>
    /\ log' = <<>>
    /\ out' = NoResult
    /\ ret' = NoRet
    /\ UNCHANGED <<schema, rootPath, stack, nextId, entry>>

\* The context of a caller that invokes a validator itself: one made with
\* makeCtx(null, null, value), on which __abortPipe may have been set.
CallerCtx(value, flag) == [makeCtx(Null, Null, value) EXCEPT !.abortPipe = flag]

\* schema(value, ctx), invoked by the caller without validate.  Such a call
\* has no rootPath argument.
InvokeCall ==
    /\ pc = "start"
    /\ before = NoResult
    /\ rootPath = "$"
    /\ pc' = "run"
    /\ entry' = "direct"
    /\ \E flag \in BOOLEAN : ctxs' = <<CallerCtx(input, flag)>>
    /\ stack' = <<Frame(<<>>, schema, 1, input)>>
    /\ log' = <<Event("call", Frame(<<>>, schema, 1, input), input)>>
    /\ UNCHANGED <<before, schema, input, rootPath, ret, nextId, out>>

\* The caller has the validator's return value, or has caught what it threw.
InvokeReturn ==
    /\ pc = "run"
    /\ entry = "direct"
    /\ stack = <<>>
    /\ ret.kind # "none"
    /\ out' = ret
    /\ pc' = "returned"
    /\ UNCHANGED <<entry, before, schema, input, rootPath, ctxs, stack, ret, nextId, log>>

-----------------------------------------------------------------------------
(* The leaf validators: string, number, boolean, required, optional,       *)
(* transform, check.  Each runs its handler inside validatorFn's try.      *)

\* typeof value !== kind, the guard of string(), number() and boolean()
TypeMismatch(value, kind) == TypeOf(value) # kind

TypeGuard(kind) ==
    /\ Running({kind})
    /\ ret.kind = "none"
    /\ LET f == Top
       IN IF TypeMismatch(f.value, kind)
          THEN Rethrow(f, NewError(nextId, Message(f.v.msg, ctxs[f.ctx], f.value, kind)),
                       nextId + 1)
          ELSE Return(f, f.value) /\ nextId' = nextId
    /\ UNCHANGED <<entry, before, schema, input, rootPath, pc, ctxs, out>>

String == TypeGuard("string")
Number == TypeGuard("number")
Boolean == TypeGuard("boolean")

Required ==
    /\ Running({"required"})
    /\ ret.kind = "none"
    /\ LET f == Top
       IN IF IsNullish(f.value)
          THEN Rethrow(f, NewError(nextId, Message(f.v.msg, ctxs[f.ctx], f.value, "required")),
                       nextId + 1)
          ELSE Return(f, f.value) /\ nextId' = nextId
    /\ UNCHANGED <<entry, before, schema, input, rootPath, pc, ctxs, out>>

\* An optional that never sets the flag.
OptionalFlagUnset(value, flag) == flag

\* ctx.__abortPipe after optional's handler ran on value
OptionalFlag(value, flag) == IF IsNullish(value) THEN TRUE ELSE flag

Optional ==
    /\ Running({"optional"})
    /\ ret.kind = "none"
    /\ LET f == Top
       IN /\ ctxs' = [ctxs EXCEPT ![f.ctx].abortPipe = OptionalFlag(f.value, @)]
          /\ Return(f, f.value)
    /\ UNCHANGED <<entry, before, schema, input, rootPath, pc, nextId, out>>

Transform ==
    /\ Running({"transform"})
    /\ ret.kind = "none"
    /\ LET f == Top
           r == CallTransform(f.v.fn, f.value, nextId)
       IN IF r.threw
          THEN Rethrow(f, r.v, nextId + r.allocs)
          ELSE Return(f, r.v) /\ nextId' = nextId + r.allocs
    /\ UNCHANGED <<entry, before, schema, input, rootPath, pc, ctxs, out>>

\* A check that accepts every truthy return value.
PassesTruthy(result) == ~Falsy(result)

\* result === true
Passes(result) == result = Bool(TRUE)

Check ==
    /\ Running({"check"})
    /\ ret.kind = "none"
    /\ LET f == Top
           r == CallCheck(f.v.fn, f.value, nextId)
       IN IF r.threw
          THEN Rethrow(f, r.v, nextId + r.allocs)
          ELSE IF Passes(r.v)
          THEN Return(f, f.value) /\ nextId' = nextId
          ELSE Rethrow(f, NewError(nextId, Message(f.v.msg, ctxs[f.ctx], f.value, NameOf(f.v))),
                       nextId + 1)
    /\ UNCHANGED <<entry, before, schema, input, rootPath, pc, ctxs, out>>

\* A validator made with createValidator from a handler of the caller's.
Custom ==
    /\ Running({"custom"})
    /\ ret.kind = "none"
    /\ LET f == Top
           r == CallHandler(f.v.handler, f.value, nextId)
       IN IF r.threw
          THEN Rethrow(f, r.v, nextId + r.allocs)
          ELSE Return(f, r.v) /\ nextId' = nextId + r.allocs
    /\ UNCHANGED <<entry, before, schema, input, rootPath, pc, ctxs, out>>

-----------------------------------------------------------------------------
(* pipe.  i counts the steps whose result has been assigned.               *)

\* A pipe that stops once a step has handed it null or undefined.
PipeContinuesOnValue(f) == f.i < Len(f.v.vs) /\ ~(f.i > 0 /\ IsNullish(f.cur))

\* The loop goes on: a validator is left and ctx.__abortPipe is not set.
PipeContinues(f) == f.i < Len(f.v.vs) /\ ~ctxs[f.ctx].abortPipe

\* validator(value, ctx), the call of one step
PipeCall ==
    /\ Running({"pipe"})
    /\ ret.kind = "none"
    /\ PipeContinues(Top)
    /\ LET f == Top
       IN Call(f, Append(f.node, f.i + 1), f.v.vs[f.i + 1], f.ctx, f.cur)
    /\ UNCHANGED <<entry, before, schema, input, rootPath, pc, ctxs, ret, nextId, out>>

\* A pipe that calls each step but drops what it returned.
PipeKeepValue(value, returned) == value

\* value = validator(value, ctx): pipe's value once the step has returned
PipeNextValue(value, returned) == returned

\* value = <what the step returned>
PipeAssign ==
    /\ Running({"pipe"})
    /\ ret.kind = "value"
    /\ stack' = [stack EXCEPT ![Len(stack)].cur = PipeNextValue(@, ret.v),
                              ![Len(stack)].i = @ + 1]
    /\ ret' = NoRet
    /\ UNCHANGED <<entry, before, schema, input, rootPath, pc, ctxs, nextId, log, out>>

\* A pipe that leaves the flag as it finds it.
PipeExitFlagKept(flag) == flag

\* ctx.__abortPipe once pipe has left its loop
PipeExitFlag(flag) == FALSE

\* delete ctx.__abortPipe; return value
PipeReturn ==
    /\ Running({"pipe"})
    /\ ret.kind = "none"
    /\ ~PipeContinues(Top)
    /\ LET f == Top
       IN /\ ctxs' = [ctxs EXCEPT ![f.ctx].abortPipe = PipeExitFlag(@)]
          /\ Return(f, f.cur)
    /\ UNCHANGED <<entry, before, schema, input, rootPath, pc, nextId, out>>

\* The catch clause of a validator whose handler called the validator that
\* threw: pipe, object, array.
Catch ==
    /\ Running({"pipe", "object", "array"})
    /\ ret.kind = "throw"
    /\ Rethrow(Top, ret.v, nextId)
    /\ UNCHANGED <<entry, before, schema, input, rootPath, pc, ctxs, out>>

-----------------------------------------------------------------------------
(* object.  i counts the members assigned to result.                       *)

\* typeof value !== 'object' || value === null || Array.isArray(value)
NotAnObject(value) ==
    TypeOf(value) # "object" \/ value.t = "null" \/ IsArray(value)

\* The guard, then const result = {} and the start of the for-in loop.
ObjectEnter ==
    /\ Running({"object"})
    /\ ret.kind = "none"
    /\ ~Top.entered
    /\ LET f == Top
       IN IF NotAnObject(f.value)
          THEN Rethrow(f, NewError(nextId, Message(f.v.msg, ctxs[f.ctx], f.value, "object")),
                       nextId + 1)
          ELSE /\ stack' = [stack EXCEPT ![Len(stack)].entered = TRUE,
                                         ![Len(stack)].keys = ForIn(f.v.shape),
                                         ![Len(stack)].acc = Obj(nextId, <<>>)]
               /\ nextId' = nextId + 1
               /\ UNCHANGED <<ret, log>>
    /\ UNCHANGED <<entry, before, schema, input, rootPath, pc, ctxs, out>>

\* An object that hands its own context to its members' validators.
ObjectOwnCtx(f) == f.ctx

\* The context object() hands to a member's validator: the childCtx it has
\* just made, the newest context.
ObjectChildCtx(f) == Len(ctxs) + 1

\* const childCtx = makeCtx(ctx, key, value[key]); shape[key](value[key], childCtx)
ObjectMember ==
    /\ Running({"object"})
    /\ ret.kind = "none"
    /\ Top.entered
    /\ Top.i < Len(Top.keys)
    /\ LET f == Top
           key == f.keys[f.i + 1]
           at == Position(f.v.shape, key)
           member == GetMember(f.value, key)
       IN /\ ctxs' = Append(ctxs, makeCtx(ctxs[f.ctx], Str(key), member))
          /\ Call(f, Append(f.node, at), f.v.shape[at][2], ObjectChildCtx(f), member)
    /\ UNCHANGED <<entry, before, schema, input, rootPath, pc, ret, nextId, out>>

\* result[key] = <what the member's validator returned>
ObjectAssign ==
    /\ Running({"object"})
    /\ ret.kind = "value"
    /\ LET f == Top
           key == f.keys[f.i + 1]
       IN stack' = [stack EXCEPT ![Len(stack)].acc.v = Append(@, <<key, ret.v>>),
                                 ![Len(stack)].i = @ + 1]
    /\ ret' = NoRet
    /\ UNCHANGED <<entry, before, schema, input, rootPath, pc, ctxs, nextId, log, out>>

\* return result
ObjectReturn ==
    /\ Running({"object"})
    /\ ret.kind = "none"
    /\ Top.entered
    /\ Top.i = Len(Top.keys)
    /\ Return(Top, Top.acc)
    /\ UNCHANGED <<entry, before, schema, input, rootPath, pc, ctxs, nextId, out>>

-----------------------------------------------------------------------------
(* array.  i counts the items mapped; it is also the next item's index.    *)

\* The guard, then the start of value.map(...), which creates the new array.
ArrayEnter ==
    /\ Running({"array"})
    /\ ret.kind = "none"
    /\ ~Top.entered
    /\ LET f == Top
       IN IF ~IsArray(f.value)
          THEN Rethrow(f, NewError(nextId, Message(f.v.msg, ctxs[f.ctx], f.value, "array")),
                       nextId + 1)
          ELSE /\ stack' = [stack EXCEPT ![Len(stack)].entered = TRUE,
                                         ![Len(stack)].acc = Arr(nextId, <<>>)]
               /\ nextId' = nextId + 1
               /\ UNCHANGED <<ret, log>>
    /\ UNCHANGED <<entry, before, schema, input, rootPath, pc, ctxs, out>>

\* An array that counts its items from one.
ArrayKeyFromOne(i) == Num(i + 1)

\* The key of an item's context: map's index, a number from zero.
ArrayKey(i) == Num(i)

\* const childCtx = makeCtx(ctx, i, item); validator(item, childCtx)
ArrayItem ==
    /\ Running({"array"})
    /\ ret.kind = "none"
    /\ Top.entered
    /\ Top.i < Len(Top.value.v)
    /\ LET f == Top
           item == f.value.v[f.i + 1]
       IN /\ ctxs' = Append(ctxs, makeCtx(ctxs[f.ctx], ArrayKey(f.i), item))
          /\ Call(f, Append(f.node, f.i), f.v.item, Len(ctxs) + 1, item)
    /\ UNCHANGED <<entry, before, schema, input, rootPath, pc, ret, nextId, out>>

\* The callback's return value becomes the next item of the new array.
ArrayAssign ==
    /\ Running({"array"})
    /\ ret.kind = "value"
    /\ stack' = [stack EXCEPT ![Len(stack)].acc.v = Append(@, ret.v),
                              ![Len(stack)].i = @ + 1]
    /\ ret' = NoRet
    /\ UNCHANGED <<entry, before, schema, input, rootPath, pc, ctxs, nextId, log, out>>

\* An array validator that hands back the array it was given.
ArrayResultInput(f) == f.value

\* What value.map(...) returns: the new array.
ArrayResult(f) == f.acc

\* map returns the new array, and the handler returns it.
ArrayReturn ==
    /\ Running({"array"})
    /\ ret.kind = "none"
    /\ Top.entered
    /\ Top.i = Len(Top.value.v)
    /\ Return(Top, ArrayResult(Top))
    /\ UNCHANGED <<entry, before, schema, input, rootPath, pc, ctxs, nextId, out>>

-----------------------------------------------------------------------------
(* The calls of validate that are explored.                                *)

\* The sequences over S of at most n elements.
SeqsUpTo(S, n) == UNION {[1..k -> S] : k \in 0..n}

Prims == {Null, Undef, Num(0), Num(1), Str("a"), Str(""), Bool(TRUE), Bool(FALSE)}

Items == {Num(1), Str("a"), Null}

InputArrays == {Arr(0, items) : items \in SeqsUpTo(Items, MaxLen)}

Absent == [t |-> "absent"]

\* The object literal with the members that are not Absent.
Literal(members) ==
    LET Present(m) == m[2] # Absent
    IN Obj(0, SelectSeq(members, Present))

InputObjects ==
    {Literal(<<<<"1", x>>, <<"a", y>>, <<"b", z>>>>) :
        x \in {Absent, Num(1), Str("a")},
        y \in {Absent, Num(1), Str("a"), Null},
        z \in {Absent, Num(1), Str("a"), Null}}

NestedInputs ==
    {Literal(<<<<"u", Literal(<<<<"n", n>>, <<"g", g>>>>)>>>>) :
        n \in {Str("a"), Num(1)}, g \in {Num(1), Str("a")}}
    \cup {Literal(<<<<"u", Num(1)>>>>)}
    \cup {Literal(<<<<"l", list>>>>) : list \in InputArrays}
    \cup {Arr(0, items) :
            items \in SeqsUpTo({Literal(<<<<"a", Str("a")>>>>), Literal(<<<<"a", Num(1)>>>>)},
                               MaxLen)}
    \cup {Arr(0, <<list>>) : list \in InputArrays}

Inputs == Prims \cup InputArrays \cup InputObjects \cup NestedInputs

isPositive == Predicate("isPositive", "gt0")
\* function assertPositive (v) { throw new Error('boom') }
assertPositive == Predicate("assertPositive", "throw")
Arrow(body) == Predicate("", body)

\* The steps of the generated pipelines.
PipeSteps ==
    {optional, string(""), number("must be a number"), required(""),
     transform("upper"), transform("toNull"), transform("throwStr"),
     check(isPositive, "")}

GeneratedPipes ==
    {pipe(steps) : steps \in SeqsUpTo(PipeSteps, MaxPipe) \ {<<>>}}

Leaves ==
    {string(""), string("must be a string"), number(""), boolean(""),
     required(""), required("needed"), optional,
     check(isPositive, ""), check(isPositive, "must be > 0"),
     check(assertPositive, ""), check(assertPositive, "must be > 0"),
     check(Arrow("gt0"), "must be > 0")}
    \cup {transform(fn) : fn \in {"upper", "toNull", "wrap", "throwStr", "throwErr"}}
    \cup {check(Arrow(body), "") : body \in CheckBodies}
    \cup {custom("testValidator", "throwStr")}

Composites ==
    {object(<<<<"a", string("")>>, <<"b", pipe(<<optional, number("")>>)>>>>, ""),
     object(<<<<"b", string("")>>, <<"1", number("")>>>>, ""),
     object(<<<<"u", object(<<<<"n", string("")>>, <<"g", number("")>>>>, "")>>>>, ""),
     object(<<<<"a", transform("upper")>>, <<"b", number("")>>>>, "must be an object"),
     object(<<<<"a", optional>>, <<"b", pipe(<<required(""), string("")>>)>>>>, ""),
     object(<<<<"l", array(string(""), "")>>>>, ""),
     object(<<>>, ""),
     array(number(""), ""),
     array(pipe(<<optional, number("")>>), "must be an array"),
     array(object(<<<<"a", string("")>>>>, ""), ""),
     array(transform("upper"), ""),
     array(array(number(""), ""), ""),
     pipe(<<transform("wrap"), object(<<<<"a", string("")>>>>, "")>>),
     pipe(<<object(<<<<"a", pipe(<<optional, string("")>>)>>, <<"b", string("")>>>>, ""),
            check(Arrow("true"), "")>>),
     pipe(<<array(pipe(<<optional, string("")>>), ""), check(Arrow("true"), "")>>),
     pipe(<<pipe(<<optional, string("")>>), number("")>>),
     pipe(<<pipe(<<optional, string("")>>), transform("wrap")>>),
     pipe(<<pipe(<<optional, string("")>>), transform("wrap"),
            object(<<<<"a", pipe(<<optional, string("")>>)>>>>, "")>>),
     pipe(<<pipe(<<pipe(<<optional, number("")>>), string("")>>), required("")>>),
     pipe(<<optional, object(<<<<"a", string("")>>>>, "")>>),
     pipe(<<required(""), array(check(isPositive, ""), ""), transform("toNull")>>),
     pipe(<<number(""), custom("double", "double")>>),
     pipe(<<transform("wrap"), custom("testValidator", "throwStr")>>),
     object(<<<<"a", custom("testValidator", "throwStr")>>>>, ""),
     array(pipe(<<number(""), custom("double", "double")>>), "")}

Calls ==
    (GeneratedPipes \X Prims) \cup ((Leaves \cup Composites) \X Inputs)
    \cup ({custom("double", "double")} \X {Num(0), Num(1)})

RootPaths == {"$", "root"}

Init ==
    /\ \E call \in Calls : schema = call[1] /\ input = call[2]
    /\ rootPath \in RootPaths
    /\ pc = "start"
    /\ ctxs = <<>>
    /\ stack = <<>>
    /\ ret = NoRet
    /\ nextId = 1
    /\ log = <<>>
    /\ out = NoResult
    /\ before = NoResult
    /\ entry = "none"

Next ==
    \/ ValidateCall
    \/ ValidateAgain
    \/ InvokeCall
    \/ InvokeReturn
    \/ ValidateReturn
    \/ ValidateCatch
    \/ String
    \/ Number
    \/ Boolean
    \/ Required
    \/ Optional
    \/ Transform
    \/ Check
    \/ Custom
    \/ PipeCall
    \/ PipeAssign
    \/ PipeReturn
    \/ ObjectEnter
    \/ ObjectMember
    \/ ObjectAssign
    \/ ObjectReturn
    \/ ArrayEnter
    \/ ArrayItem
    \/ ArrayAssign
    \/ ArrayReturn
    \/ Catch

Spec == Init /\ [][Next]_vars

-----------------------------------------------------------------------------
(* Reading the log.  A node is entered at most once in a run, so a node    *)
(* names one invocation.                                                   *)

Events(ev, node) == {i \in DOMAIN log : log[i].ev = ev /\ log[i].node = node}
Called(node) == Events("call", node) # {}
Returned(node) == Events("return", node) # {}
Threw(node) == Events("throw", node) # {}
CallOf(node) == log[CHOOSE i \in Events("call", node) : TRUE]
ReturnOf(node) == log[CHOOSE i \in Events("return", node) : TRUE]
ThrowOf(node) == log[CHOOSE i \in Events("throw", node) : TRUE]
Nodes == {log[i].node : i \in DOMAIN log}
Throws == {i \in DOMAIN log : log[i].ev = "throw"}
FirstThrow == log[CHOOSE i \in Throws : \A j \in Throws : i <= j]

\* The validator at a node of the schema.
RECURSIVE SubTerm(_, _)
SubTerm(v, node) ==
    IF node = <<>> THEN v
    ELSE CASE v.k = "pipe" -> SubTerm(v.vs[Head(node)], Tail(node))
           [] v.k = "object" -> SubTerm(v.shape[Head(node)][2], Tail(node))
           [] v.k = "array" -> SubTerm(v.item, Tail(node))

\* The keys descended from the root to reach a node: a member name for a
\* step into an object, an index for a step into an array, nothing for a
\* step of a pipe.
RECURSIVE KeyChain(_, _)
KeyChain(v, node) ==
    IF node = <<>> THEN <<>>
    ELSE CASE v.k = "pipe" -> KeyChain(v.vs[Head(node)], Tail(node))
           [] v.k = "object" ->
                <<Str(v.shape[Head(node)][1])>> \o KeyChain(v.shape[Head(node)][2], Tail(node))
           [] v.k = "array" -> <<Num(Head(node))>> \o KeyChain(v.item, Tail(node))

\* The root marker followed by each key, an index in brackets, a name after a dot.
RECURSIVE Rendered(_, _)
Rendered(marker, keys) ==
    IF keys = <<>> THEN marker
    ELSE Rendered(marker \o (IF Head(keys).t = "number"
                             THEN "[" \o NumText(Head(keys).v) \o "]"
                             ELSE "." \o Head(keys).v),
                  Tail(keys))

\* The fields a validator stamps on an error.
StampOf(error) ==
    <<error.expected, error.actual, error.path, error.key, error.parent, error.root>>

Failed == pc = "done" /\ ~out.valid
Succeeded == pc = "done" /\ out.valid

-----------------------------------------------------------------------------
(* C1: when validate reports a failure, its result field is the value      *)
(* validate was given, whatever the steps before the failure had produced. *)
C1_FailureReturnsInput == Failed => out.result = input

\* A failure after a transform step had already returned another value.
C1_Witness ==
    /\ Failed
    /\ out.error.actual # input
    /\ \E i \in DOMAIN log :
         log[i].ev = "return" /\ log[i].name = "transform" /\ log[i].v # input

(* C2: validate itself never throws and no validator swallows a failure:   *)
(* if a validator threw during the run, validate returns valid = false     *)
(* with the very error that was thrown; otherwise it returns valid = true  *)
(* with what the schema returned.                                          *)
C2_FailurePropagates ==
    pc = "done" =>
        IF Throws # {}
        THEN /\ ~out.valid
             /\ \A i \in Throws : log[i].v.id = out.error.id
             /\ Threw(<<>>)
             /\ out.error = ThrowOf(<<>>).v
        ELSE /\ out.valid
             /\ Returned(<<>>)
             /\ out.result = ReturnOf(<<>>).v

\* An error that went up through at least two enclosing validators.
C2_Witness == Failed /\ Cardinality(Throws) >= 3

(* C3: first stamp wins.  The error keeps, through every enclosing         *)
(* validator that re-throws it, the expected, actual, path, key, parent    *)
(* and root the validator that first threw it stamped: that validator's    *)
(* name, its input and its context's location.                             *)
C3_FirstStampWins ==
    Throws # {} =>
        LET first == FirstThrow
            ctx == ctxs[first.ctx]
        IN /\ \A i \in Throws : StampOf(log[i].v) = StampOf(first.v)
           /\ first.v.expected = Str(first.name)
           /\ first.v.actual = CallOf(first.node).v
           /\ first.v.path = Str(ctx.path)
           /\ first.v.key = ctx.key
           /\ first.v.parent = ctx.parent
           /\ first.v.root = ctx.root
           /\ Failed => StampOf(out.error) = StampOf(first.v)

\* A failure below the root that passed through two enclosing validators.
C3_Witness ==
    /\ Failed
    /\ Cardinality(Throws) >= 3
    /\ FirstThrow.ctx # 1
    /\ out.error.expected # Str(NameOf(schema))

(* C4: path determinism.  The path of the context a validator runs on, and *)
(* of an error stamped there, is the root marker followed by the keys      *)
(* descended to reach it, each index as [i] and each member name as .name. *)
C4_PathDeterminism ==
    /\ \A i \in DOMAIN log :
         ctxs[log[i].ctx].path = Rendered(rootPath, KeyChain(schema, log[i].node))
    /\ Throws # {} =>
         FirstThrow.v.path = Str(Rendered(rootPath, KeyChain(schema, FirstThrow.node)))

\* An error stamped two keys below a root marker that is not the default.
C4_Witness ==
    /\ Failed
    /\ rootPath = "root"
    /\ out.error.path \in {Str("root.l[1]"), Str("root[0][1]"), Str("root[1].a")}

-----------------------------------------------------------------------------
(* Invocations by the kind of validator, and the places below a node.      *)

PipeNodes == {n \in Nodes : SubTerm(schema, n).k = "pipe"}
ObjectNodes == {n \in Nodes : SubTerm(schema, n).k = "object"}
ArrayNodes == {n \in Nodes : SubTerm(schema, n).k = "array"}
CheckNodes == {n \in Nodes : SubTerm(schema, n).k = "check"}

Child(n, j) == Append(n, j)
CallIndex(node) == CHOOSE i \in Events("call", node) : TRUE

\* The steps of the pipe at n that were invoked.
CalledSteps(n) == {j \in 1..Len(SubTerm(schema, n).vs) : Called(Child(n, j))}

\* The steps were invoked in declared order, each on what the one before returned.
PipeChained(n) ==
    \A j \in CalledSteps(n) :
        /\ Cardinality(Events("call", Child(n, j))) = 1
        /\ IF j = 1 THEN CallOf(Child(n, j)).v = CallOf(n).v
           ELSE /\ Returned(Child(n, j - 1))
                /\ CallIndex(Child(n, j - 1)) < CallIndex(Child(n, j))
                /\ CallOf(Child(n, j)).v = ReturnOf(Child(n, j - 1)).v
        /\ CallOf(Child(n, j)).ctx = CallOf(n).ctx

(* C5 as claimed: a pipe invokes every step exactly once, in order, each   *)
(* on the output of the one before, and returns the last step's output; a  *)
(* step that throws ends the pipe, and the error names that step, with     *)
(* actual the value that step received.                                    *)
C5_AsClaimed ==
    pc = "done" =>
        \A n \in PipeNodes :
            LET vs == SubTerm(schema, n).vs
            IN /\ PipeChained(n)
               /\ Returned(n) =>
                    /\ CalledSteps(n) = 1..Len(vs)
                    /\ ReturnOf(n).v = ReturnOf(Child(n, Len(vs))).v
               /\ \A i \in CalledSteps(n) :
                    Threw(Child(n, i)) =>
                        /\ \A j \in CalledSteps(n) : j <= i
                        /\ ThrowOf(n).v.expected = Str(NameOf(vs[i]))
                        /\ ThrowOf(n).v.actual = CallOf(Child(n, i)).v

(* C5 amended: a pipe invokes its steps in declared order, each at most    *)
(* once and each on the output of the one before; it runs them all and     *)
(* returns the last one's output unless a step that is optional() receives *)
(* null or undefined, after which no step is invoked and the pipe returns  *)
(* that value; a step that throws ends the pipe, which re-throws that      *)
(* step's error as it is, never under the name 'pipe': the error names     *)
(* step i, with actual the value step i received, when step i's own        *)
(* handler threw, and the innermost failing validator inside step i when   *)
(* the failure came from below it.                                         *)
C5_PipeOrder ==
    pc = "done" =>
        \A n \in PipeNodes :
            LET vs == SubTerm(schema, n).vs
            IN /\ PipeChained(n)
               /\ Returned(n) =>
                    \E m \in 1..Len(vs) :
                        /\ CalledSteps(n) = 1..m
                        /\ ReturnOf(n).v = ReturnOf(Child(n, m)).v
                        /\ m < Len(vs) =>
                             /\ vs[m].k = "optional"
                             /\ IsNullish(CallOf(Child(n, m)).v)
               /\ \A i \in CalledSteps(n) :
                    Threw(Child(n, i)) =>
                        /\ \A j \in CalledSteps(n) : j <= i
                        /\ Threw(n)
                        /\ ThrowOf(n).v = ThrowOf(Child(n, i)).v
                        /\ ThrowOf(n).v.expected # Str("pipe")
                        /\ FirstThrow.node = Child(n, i) =>
                             /\ ThrowOf(n).v.expected = Str(NameOf(vs[i]))
                             /\ ThrowOf(n).v.actual = CallOf(Child(n, i)).v

\* The second step of a pipe fails on the value the first step produced.
C5_Witness ==
    /\ Failed
    /\ schema.k = "pipe"
    /\ Threw(<<2>>)
    /\ out.error.expected = Str(NameOf(schema.vs[2]))
    /\ out.error.actual = ReturnOf(<<1>>).v
    /\ out.error.actual # input

(* C6: within validate, optional() short-circuits the pipe it is a step    *)
(* of.  On null or undefined no later step of that pipe is invoked and the *)
(* pipe returns that value; on any other value optional() returns it,      *)
(* leaves the abort flag unset, and the next step is invoked on that same  *)
(* value.                                                                  *)
C6_OptionalShortCircuit ==
    /\ pc = "done" =>
         \A n \in PipeNodes :
             LET vs == SubTerm(schema, n).vs
             IN \A j \in CalledSteps(n) :
                    vs[j].k = "optional" =>
                        LET value == CallOf(Child(n, j)).v
                        IN /\ Returned(Child(n, j))
                           /\ ReturnOf(Child(n, j)).v = value
                           /\ IsNullish(value) =>
                                /\ \A later \in CalledSteps(n) : later <= j
                                /\ Returned(n)
                                /\ ReturnOf(n).v = value
                           /\ (~IsNullish(value) /\ j < Len(vs)) =>
                                /\ Called(Child(n, j + 1))
                                /\ CallOf(Child(n, j + 1)).v = value
    /\ (entry = "validate" /\ log # <<>>) =>
         LET last == log[Len(log)]
         IN (last.ev = "return" /\ last.name = "optional" /\ ~IsNullish(last.v)) =>
                ~ctxs[last.ctx].abortPipe

\* optional() received null or undefined ahead of a step that was left out.
C6_Witness ==
    /\ Succeeded
    /\ \E n \in PipeNodes :
         \E j \in CalledSteps(n) :
             /\ SubTerm(schema, n).vs[j].k = "optional"
             /\ IsNullish(CallOf(Child(n, j)).v)
             /\ j < Len(SubTerm(schema, n).vs)
             /\ out.result = CallOf(Child(n, j)).v

-----------------------------------------------------------------------------
\* The members of the object at n, by their position in the shape as written,
\* and the items of the array at n, by index, whose validator was invoked.
CalledMembers(n) == {p \in 1..Len(SubTerm(schema, n).shape) : Called(Child(n, p))}
CalledItems(n) == {i \in 0..(Len(CallOf(n).v.v) - 1) : Called(Child(n, i))}

\* The contexts of the invocations in S are pairwise different.
OwnContexts(n, S) ==
    \A a \in S :
        /\ CallOf(Child(n, a)).ctx # CallOf(n).ctx
        /\ \A b \in S : a # b => CallOf(Child(n, a)).ctx # CallOf(Child(n, b)).ctx

(* C7: abort scoping within validate.  A flag set while a member of an     *)
(* object or an item of an array is validated sits on that member's own    *)
(* context: it is never                                                    *)
(* set on the context of a validator that waits on another context, every  *)
(* validator starts on a context whose flag is unset, every member and     *)
(* item gets a context of its own, an object or array that returns has     *)
(* invoked the validator of every member or item, and a pipe leaves steps  *)
(* out only after an optional() of its own received null or undefined.     *)
C7_AbortScoping ==
    /\ entry = "validate" =>
         \A d \in 1..Len(stack) :
             stack[d].ctx # Top.ctx => ~ctxs[stack[d].ctx].abortPipe
    /\ (entry = "validate" /\ log # <<>> /\ log[Len(log)].ev = "call") =>
         ~ctxs[log[Len(log)].ctx].abortPipe
    /\ pc = "done" =>
         /\ \A n \in ObjectNodes :
              /\ OwnContexts(n, CalledMembers(n))
              /\ Returned(n) => CalledMembers(n) = 1..Len(SubTerm(schema, n).shape)
         /\ \A n \in ArrayNodes :
              IsArray(CallOf(n).v) =>
                  /\ OwnContexts(n, CalledItems(n))
                  /\ Returned(n) => CalledItems(n) = 0..(Len(CallOf(n).v.v) - 1)
         /\ \A n \in PipeNodes :
              Returned(n) =>
                  \E m \in 1..Len(SubTerm(schema, n).vs) :
                      /\ CalledSteps(n) = 1..m
                      /\ m < Len(SubTerm(schema, n).vs) =>
                           /\ SubTerm(schema, n).vs[m].k = "optional"
                           /\ IsNullish(CallOf(Child(n, m)).v)
                           /\ CallOf(Child(n, m)).ctx = CallOf(n).ctx

\* An optional() set the flag for one member, and a validator running
\* afterwards on another member's context failed all the same.
C7_Witness ==
    /\ Failed
    /\ \E i \in DOMAIN log :
         /\ log[i].ev = "return"
         /\ log[i].name = "optional"
         /\ IsNullish(log[i].v)
         /\ log[i].ctx # 1
         /\ \E j \in Throws : j > i /\ log[j].ctx \notin {1, log[i].ctx}

(* C8 as claimed: object(shape) invokes its members' validators in the     *)
(* order the keys were written in shape, stops at the first failure, and   *)
(* then returns nothing.                                                   *)
C8_AsClaimed ==
    pc = "done" =>
        \A n \in ObjectNodes :
            /\ \A p \in CalledMembers(n) : \A q \in CalledMembers(n) :
                 p < q => CallIndex(Child(n, p)) < CallIndex(Child(n, q))
            /\ \A p \in CalledMembers(n) :
                 Threw(Child(n, p)) =>
                     /\ \A q \in CalledMembers(n) : q <= p
                     /\ Threw(n)
                     /\ ThrowOf(n).v = ThrowOf(Child(n, p)).v
                     /\ ~Returned(n)

(* C9: array(itemValidator) validates the items in increasing index order, *)
(* each on a context of its own whose key is the index from zero and whose *)
(* path is the array's path followed by [i]; the first item that fails     *)
(* ends the run over the array, whose error is that item's error (stamped  *)
(* with that path when the item validator itself is the one that failed);  *)
(* when no item fails the result is a new array of the same length whose   *)
(* item i is what itemValidator returned for item i.                       *)
C9_ArrayOrder ==
    pc = "done" =>
        \A n \in ArrayNodes :
            IsArray(CallOf(n).v) =>
                LET items == CallOf(n).v.v
                    own == ctxs[CallOf(n).ctx]
                IN /\ \A i \in CalledItems(n) :
                        LET ctx == ctxs[CallOf(Child(n, i)).ctx]
                        IN /\ CallOf(Child(n, i)).v = items[i + 1]
                           /\ ctx.key = Num(i)
                           /\ ctx.path = own.path \o "[" \o NumText(i) \o "]"
                           /\ ctx.value = items[i + 1]
                           /\ \A h \in 0..(i - 1) :
                                /\ Returned(Child(n, h))
                                /\ CallIndex(Child(n, h)) < CallIndex(Child(n, i))
                           /\ Threw(Child(n, i)) =>
                                /\ \A h \in CalledItems(n) : h <= i
                                /\ Threw(n)
                                /\ ThrowOf(n).v = ThrowOf(Child(n, i)).v
                                /\ FirstThrow.node = Child(n, i) =>
                                     ThrowOf(n).v.path = Str(own.path \o "[" \o NumText(i) \o "]")
                   /\ Returned(n) =>
                        LET result == ReturnOf(n).v
                        IN /\ IsArray(result)
                           /\ result.id # CallOf(n).v.id
                           /\ Len(result.v) = Len(items)
                           /\ \A i \in 0..(Len(items) - 1) :
                                /\ Returned(Child(n, i))
                                /\ result.v[i + 1] = ReturnOf(Child(n, i)).v

\* The item at index 1 fails after the item at index 0 passed.
C9_Witness ==
    /\ Failed
    /\ schema.k = "array"
    /\ Returned(<<0>>)
    /\ Threw(<<1>>)
    /\ out.error.path = Str(rootPath \o "[1]")
    /\ out.error.key = Num(1)

(* C10: check(fn) returns its input, unchanged, exactly when fn returns    *)
(* the boolean true; on any other return value of fn it throws.            *)
C10_CheckLiteralTrue ==
    pc = "done" =>
        \A n \in CheckNodes :
            LET value == CallOf(n).v
                r == CallCheck(SubTerm(schema, n).fn, value, 0)
            IN /\ Returned(n) <=> (~r.threw /\ r.v.t = "boolean" /\ r.v.v)
               /\ Returned(n) => ReturnOf(n).v = value
               /\ ~Returned(n) => Threw(n)

\* A predicate returned a truthy value that is not true, and check failed.
C10_Witness ==
    /\ Failed
    /\ \E n \in CheckNodes :
         LET r == CallCheck(SubTerm(schema, n).fn, CallOf(n).v, 0)
         IN ~r.threw /\ ~Falsy(r.v) /\ r.v.t # "boolean" /\ Threw(n)

-----------------------------------------------------------------------------
(* C11: a failing check is attributed to its predicate's declared name, or *)
(* to 'check' when the predicate has none: the error's expected is that    *)
(* name, both when the predicate returned something other than true and    *)
(* when the predicate itself threw; when the predicate returned and no     *)
(* message was supplied, the message is the default one, made of the path, *)
(* the value and that name; a supplied message is the whole message.       *)
C11_CheckName ==
    pc = "done" =>
        \A n \in CheckNodes :
            Threw(n) =>
                LET v == SubTerm(schema, n)
                    value == CallOf(n).v
                    name == IF v.fn.name = "" THEN "check" ELSE v.fn.name
                    path == Rendered(rootPath, KeyChain(schema, n))
                    error == ThrowOf(n).v
                    r == CallCheck(v.fn, value, 0)
                IN /\ error.expected = Str(name)
                   /\ Failed /\ out.error.expected = Str(name)
                   /\ (~r.threw /\ v.msg = "") =>
                        error.message =
                            "(" \o path \o ": " \o formatValue(value) \o ") " \o Cross \o " " \o name
                   /\ (~r.threw /\ v.msg # "") => error.message = v.msg
                   /\ r.threw => error.message = r.v.message

\* check(isPositive) applied to 0 at path $, with no message supplied.
C11_Witness ==
    /\ Failed
    /\ schema = check(isPositive, "")
    /\ input = Num(0)
    /\ rootPath = "$"
    /\ out.error.expected = Str("isPositive")
    /\ out.error.message = "($: 0) " \o Cross \o " isPositive"

-----------------------------------------------------------------------------
RequiredNodes == {n \in Nodes : SubTerm(schema, n).k = "required"}

(* C12: required() throws exactly when its value is null or undefined; the *)
(* error is attributed to 'required', stamped with that value, and carries *)
(* the supplied message, or the default one when none was supplied; every  *)
(* other value, 0, the empty string and false among them, is returned as   *)
(* it is.                                                                  *)
C12_Required ==
    pc = "done" =>
        \A n \in RequiredNodes :
            LET v == SubTerm(schema, n)
                value == CallOf(n).v
                path == Rendered(rootPath, KeyChain(schema, n))
            IN /\ Threw(n) <=> value.t \in {"null", "undefined"}
               /\ Returned(n) <=> value.t \notin {"null", "undefined"}
               /\ Returned(n) => ReturnOf(n).v = value
               /\ Threw(n) =>
                    /\ ThrowOf(n).v.expected = Str("required")
                    /\ ThrowOf(n).v.actual = value
                    /\ ThrowOf(n).v.message =
                         IF v.msg # "" THEN v.msg
                         ELSE "(" \o path \o ": " \o PrimText(value) \o ") " \o Cross \o " required"
                    /\ Failed /\ out.error = ThrowOf(n).v

\* required('needed') applied to undefined fails with the message 'needed'.
C12_Witness ==
    /\ Failed
    /\ schema = required("needed")
    /\ input = Undef
    /\ out.error.message = "needed"
    /\ out.error.expected = Str("required")

-----------------------------------------------------------------------------
CustomNodes == {n \in Nodes : SubTerm(schema, n).k = "custom"}
TransformNodes == {n \in Nodes : SubTerm(schema, n).k = "transform"}

\* What validatorFn caught carried no stamp yet.
Unstamped(raw) == raw.t # "error" \/ raw.expected = Undef

(* C13: a validator made by createValidator(name, handler) returns what    *)
(* its handler returned; when what it catches is not stamped yet, it       *)
(* re-throws an Error, the caught one if it was an Error and otherwise a   *)
(* new one whose message is the caught value as a string, stamped with     *)
(* expected = name, actual = the value this invocation was given, and      *)
(* path, key, parent and root of the context this invocation was given;    *)
(* its caller catches that very error.                                     *)
C13_CreateValidator ==
    pc = "done" =>
        /\ \A n \in CustomNodes :
             Returned(n) =>
                 ReturnOf(n).v = CallHandler(SubTerm(schema, n).handler, CallOf(n).v, 0).v
        /\ \A n \in TransformNodes :
             Returned(n) =>
                 LET result == ReturnOf(n).v
                     id == IF result.t = "object" THEN result.id ELSE 0
                 IN result = CallTransform(SubTerm(schema, n).fn, CallOf(n).v, id).v
        /\ \A i \in Throws :
             LET node == log[i].node
                 raw == log[i].raw
                 error == log[i].v
                 ctx == ctxs[CallOf(node).ctx]
             IN Unstamped(raw) =>
                    /\ error.t = "error"
                    /\ raw.t = "error" => (error.id = raw.id /\ error.message = raw.message)
                    /\ raw.t # "error" => (error.id > 0 /\ error.message = PrimText(raw))
                    /\ error.expected = Str(NameOf(SubTerm(schema, node)))
                    /\ error.actual = CallOf(node).v
                    /\ error.path = Str(ctx.path)
                    /\ error.key = ctx.key
                    /\ error.parent = ctx.parent
                    /\ error.root = ctx.root
                    /\ IF node = <<>> THEN out.error = error
                       ELSE LET up == SubSeq(node, 1, Len(node) - 1)
                            IN Threw(up) /\ ThrowOf(up).raw = error

\* A handler of the caller's threw the string 'boom' while it validated the
\* member a of the input.
C13_Witness ==
    /\ Failed
    /\ schema = object(<<<<"a", custom("testValidator", "throwStr")>>>>, "")
    /\ Threw(<<1>>)
    /\ ThrowOf(<<1>>).raw = Str("boom")
    /\ out.error.message = "boom"
    /\ out.error.expected = Str("testValidator")
    /\ out.error.key = Str("a")
    /\ out.error.parent = input
    /\ out.error.actual = Num(1)

-----------------------------------------------------------------------------
(* Schemas made of leaf type checkers, object and array only, and the      *)
(* comparison of values by structure.                                      *)

RECURSIVE Plain(_)
Plain(v) ==
    CASE v.k \in LeafKinds -> TRUE
      [] v.k = "object" -> \A p \in 1..Len(v.shape) : Plain(v.shape[p][2])
      [] v.k = "array" -> Plain(v.item)
      [] OTHER -> FALSE

KeysOf(members) == {members[p][1] : p \in 1..Len(members)}

\* x and y are equal as structures: the same primitive, arrays of the same
\* length with equal items, objects with the same keys and equal members.
RECURSIVE StructEq(_, _)
StructEq(x, y) ==
    CASE x.t = "array" /\ y.t = "array" ->
           /\ Len(x.v) = Len(y.v)
           /\ \A i \in 1..Len(x.v) : StructEq(x.v[i], y.v[i])
      [] x.t = "object" /\ y.t = "object" ->
           /\ KeysOf(x.v) = KeysOf(y.v)
           /\ \A key \in KeysOf(x.v) : StructEq(Lookup(x.v, key), Lookup(y.v, key))
      [] OTHER -> x = y

\* The identities of the objects and arrays inside a value.
RECURSIVE IdsIn(_)
IdsIn(x) ==
    CASE x.t = "array" -> {x.id} \cup UNION {IdsIn(x.v[i]) : i \in 1..Len(x.v)}
      [] x.t = "object" -> {x.id} \cup UNION {IdsIn(x.v[p][2]) : p \in 1..Len(x.v)}
      [] OTHER -> {}

\* value has the structure of the plain schema v and nothing more: every
\* object holds the members its shape declares and no other.
RECURSIVE Exact(_, _)
Exact(v, value) ==
    CASE v.k \in LeafKinds -> TypeOf(value) = v.k
      [] v.k = "object" ->
           /\ value.t = "object"
           /\ KeysOf(value.v) = KeysOf(v.shape)
           /\ \A p \in 1..Len(v.shape) : Exact(v.shape[p][2], Lookup(value.v, v.shape[p][1]))
      [] v.k = "array" ->
           /\ value.t = "array"
           /\ \A i \in 1..Len(value.v) : Exact(v.item, value.v[i])

\* value, accepted by the plain schema v, without the members no shape declares.
RECURSIVE Declared(_, _)
Declared(v, value) ==
    CASE v.k = "object" ->
           Obj(0, [p \in 1..Len(v.shape) |->
                     <<v.shape[p][1], Declared(v.shape[p][2], Lookup(value.v, v.shape[p][1]))>>])
      [] v.k = "array" -> Arr(0, [i \in 1..Len(value.v) |-> Declared(v.item, value.v[i])])
      [] OTHER -> value

(* C14 as claimed: for a schema of leaf type checkers, object and array,   *)
(* a value the schema accepts comes back as a result equal in structure to *)
(* the input, every object and array of it newly made, and validating the  *)
(* result again gives an equal result.                                     *)
C14_AsClaimed ==
    (Succeeded /\ Plain(schema)) =>
        /\ StructEq(out.result, input)
        /\ IdsIn(out.result) \cap IdsIn(input) = {}
        /\ before # NoResult => StructEq(out.result, before.result)

(* C14 amended: for a schema of leaf type checkers, object and array, a    *)
(* value the schema accepts comes back as a newly made structure that      *)
(* holds, for every object, the members the shape declares and no other:   *)
(* it is equal in structure to the input exactly when the input's objects  *)
(* hold no member that their shape does not declare; a value that has the  *)
(* schema's structure is accepted; validating the result again succeeds    *)
(* with a result equal in structure to it, again newly made.               *)
C14_IdempotentSuccess ==
    (pc = "done" /\ Plain(schema)) =>
        /\ Exact(schema, input) => Succeeded
        /\ Succeeded =>
             /\ StructEq(out.result, Declared(schema, input))
             /\ Exact(schema, out.result)
             /\ IdsIn(out.result) \cap IdsIn(input) = {}
             /\ StructEq(out.result, input) <=> Exact(schema, input)
        /\ before # NoResult =>
             /\ Succeeded
             /\ input = before.result
             /\ StructEq(out.result, before.result)

\* A nested structure was validated, and its result validated again.
C14_Witness ==
    /\ Succeeded
    /\ before # NoResult
    /\ schema = object(<<<<"u", object(<<<<"n", string("")>>, <<"g", number("")>>>>, "")>>>>, "")
    /\ StructEq(out.result, before.result)
    /\ IdsIn(out.result) \cap IdsIn(before.result) = {}
    /\ out.result.v[1][2].v = <<<<"n", Str("a")>>, <<"g", Num(1)>>>>

-----------------------------------------------------------------------------
\* The log entries at which a pipe returned.
PipeReturns == {i \in DOMAIN log : log[i].ev = "return" /\ SubTerm(schema, log[i].node).k = "pipe"}

(* C15: once a pipe has returned, after all its steps or after a short     *)
(* circuit, the abort flag is not on the context it ran on, whether or not *)
(* it was there when the pipe was entered; a validator invoked on that     *)
(* context after the pipe returned finds no flag.                          *)
C15_PipeClearsFlag ==
    log # <<>> =>
        LET last == log[Len(log)]
        IN /\ Len(log) \in PipeReturns => ~ctxs[last.ctx].abortPipe
           /\ (last.ev = "call" /\ \E i \in PipeReturns : log[i].ctx = last.ctx) =>
                  ~ctxs[last.ctx].abortPipe

\* A pipe was invoked on a context that carried the flag: it ran no step,
\* returned, and the flag is gone.
C15_Witness ==
    /\ pc = "returned"
    /\ entry = "direct"
    /\ schema.k = "pipe"
    /\ Returned(<<>>)
    /\ CalledSteps(<<>>) = {}
    /\ ~ctxs[1].abortPipe

-----------------------------------------------------------------------------
\* The pipe at node ended early: it returned without invoking all its steps.
ShortCircuited(node) ==
    /\ Returned(node)
    /\ CalledSteps(node) # 1..Len(SubTerm(schema, node).vs)

\* Step h of the pipe at n ended that pipe itself: it threw, or it is an
\* optional() that received null or undefined.
EndsPipe(n, h) ==
    \/ ~Returned(Child(n, h))
    \/ /\ SubTerm(schema, n).vs[h].k = "optional"
       /\ IsNullish(CallOf(Child(n, h)).v)

(* C16: nested pipes on one context.  When a pipe that is step j of an     *)
(* outer pipe ends early because of an optional() inside it, only its own  *)
(* remaining steps are left out: the outer pipe invokes step j + 1 on the  *)
(* value the inner pipe returned, and goes on through its later steps,     *)
(* each on what the one before returned, until a step of its own throws or *)
(* is an optional() that receives null or undefined.                       *)
C16_NestedPipes ==
    pc = "done" =>
        \A n \in PipeNodes :
            LET vs == SubTerm(schema, n).vs
            IN \A j \in CalledSteps(n) :
                   (vs[j].k = "pipe" /\ ShortCircuited(Child(n, j))) =>
                       \A k \in (j + 1)..Len(vs) :
                           (\A h \in (j + 1)..(k - 1) : ~EndsPipe(n, h)) =>
                               /\ Called(Child(n, k))
                               /\ CallOf(Child(n, k)).v = ReturnOf(Child(n, k - 1)).v
                               /\ CallOf(Child(n, k)).ctx = CallOf(Child(n, j)).ctx

\* pipe(pipe(optional(), string()), number()) applied to null: string() is
\* left out, number() runs on null and fails.
C16_Witness ==
    /\ Failed
    /\ schema = pipe(<<pipe(<<optional, string("")>>), number("")>>)
    /\ input = Null
    /\ ShortCircuited(<<1>>)
    /\ ~Called(<<1, 2>>)
    /\ Called(<<2>>)
    /\ CallOf(<<2>>).v = Null
    /\ out.error.expected = Str("number")

-----------------------------------------------------------------------------
\* The node one level up: the validator whose handler invoked the one at node.
Up(node) == SubSeq(node, 1, Len(node) - 1)

\* The nodes whose validator was handed a context made for it by the object
\* or array one level up.
Descents == {n \in Nodes : n # <<>> /\ CallOf(n).ctx # CallOf(Up(n)).ctx}

(* C17: within one validate call every context has root equal to the      *)
(* value validate was given; the root context has parent null, and a       *)
(* context made on a descent has as parent the value field of the context  *)
(* one level up, and that context's root; every context was made for the   *)
(* root or for one descent; every stamped error's root is validate's       *)
(* input.                                                                  *)
C17_RootParent ==
    (entry = "validate" /\ ctxs # <<>>) =>
        /\ \A c \in DOMAIN ctxs : ctxs[c].root = input
        /\ ctxs[1].parent = Null
        /\ ctxs[1].value = input
        /\ CallOf(<<>>).ctx = 1
        /\ \A n \in Descents :
             LET own == ctxs[CallOf(n).ctx]
                 above == ctxs[CallOf(Up(n)).ctx]
             IN /\ own.parent = above.value
                /\ own.root = above.root
                /\ own.value = CallOf(n).v
        /\ DOMAIN ctxs = {1} \cup {CallOf(n).ctx : n \in Descents}
        /\ \A i \in Throws : log[i].v.root = input
        /\ Failed => out.error.root = input

\* A failure two levels down: the error's parent is the inner structure,
\* neither the root nor null, and its root is the input.
C17_Witness ==
    /\ Failed
    /\ Len(FirstThrow.node) = 2
    /\ FirstThrow.node \in Descents
    /\ Up(FirstThrow.node) \in Descents
    /\ out.error.root = input
    /\ out.error.parent # input
    /\ out.error.parent = ctxs[CallOf(Up(FirstThrow.node)).ctx].value
    /\ ctxs[CallOf(Up(FirstThrow.node)).ctx].parent = input

-----------------------------------------------------------------------------
\* parent[key], for the key of a context
Indexed(parent, key) ==
    IF key.t = "number"
    THEN (IF IsArray(parent) /\ key.v < Len(parent.v) THEN parent.v[key.v + 1] ELSE Undef)
    ELSE GetMember(parent, key.v)

\* The descent on which the context c was made.
DescentOf(c) == CHOOSE d \in Descents : CallOf(d).ctx = c

(* C18 as claimed: an error stamped below the root has as parent the       *)
(* structure that the enclosing object or array validator went through,    *)
(* so that parent[key] is the member that was handed to the member's       *)
(* validator, also when that object or array validator ran as a later step *)
(* of a pipe, after a transform had replaced the value.                    *)
C18_AsClaimed ==
    (Failed /\ FirstThrow.ctx # 1) =>
        LET made == DescentOf(FirstThrow.ctx)
            error == out.error
        IN /\ error.parent = CallOf(Up(made)).v
           /\ Indexed(error.parent, error.key) = CallOf(made).v

====
